---- MODULE Spec2Model ----
(***************************************************************************)
(* Model of the time-tracking backend (server.js: Express handlers over   *)
(* two MongoDB collections, User and TimeRecord).                          *)
(*                                                                         *)
(* Every handler is an async function; each `await` of a store call is a   *)
(* point where other requests run.  A handler is therefore a chain of      *)
(* actions, one per store call, and the slots of `procs` hold the position *)
(* and the local variables of the requests in flight.  The synchronous     *)
(* code after a store call (building a document, reading the clock) is     *)
(* part of the action of that store call.  lastResp is the response sent   *)
(* by the step that led to the current state (NoResp when that step sent   *)
(* none).                                                                  *)
(*                                                                         *)
(* Time is the value of Date.now() in milliseconds.  A calendar date       *)
(* string "YYYY-MM-DD" is represented by its day number since 1970-01-01   *)
(* (the order of the strings and of the numbers agree for years 0000 to    *)
(* 9999); the server's local time zone is taken to be UTC.                 *)
(***************************************************************************)
EXTENDS Integers, Sequences, FiniteSets, TLC

VARIABLES users, records, now, procs, lastResp

vars == <<users, records, now, procs, lastResp>>

----------------------------------------------------------------------------
(* Bounds of the model *)

NProcs == 2
MaxTicks == 1
MaxRecords == 2
TickMs == 1200

Procs == 1..NProcs

----------------------------------------------------------------------------
(* Dates *)

DayMs == 86400000

\* The model's clock starts on Sunday 1970-01-04 at 23:59:59.300 UTC, one
\* tick before Monday.
T0 == 4 * DayMs - 700

EndOfTime == T0 + MaxTicks * TickMs

\* d.toISOString().split('T')[0]
DateOf(t) == t \div DayMs

\* Date.prototype.getDay(): 0 is Sunday; 1970-01-01 was a Thursday
GetDay(t) == (DateOf(t) + 4) % 7

\* Date.prototype.getDate(): the day of the month of a day number
DayOfMonth(d) ==
    LET z   == d + 719468
        era == z \div 146097
        doe == z - era * 146097
        yoe == (doe - doe \div 1460 + doe \div 36524 - doe \div 146096) \div 365
        doy == doe - (365 * yoe + yoe \div 4 - yoe \div 100)
        mp  == (5 * doy + 2) \div 153
    IN  doy - (153 * mp + 2) \div 5 + 1

GetDate(t) == DayOfMonth(DateOf(t))

\* d.setDate(n): the same time of day, n - 1 days after the first of d's month
SetDate(t, n) == t + (n - GetDate(t)) * DayMs

\* startOfWeek.setDate(startOfWeek.getDate() - startOfWeek.getDay() + 1)
StartOfWeek(t) == SetDate(t, GetDate(t) - GetDay(t) + 1)

\* startOfMonth.setDate(1)
StartOfMonth(t) == SetDate(t, 1)

----------------------------------------------------------------------------
(* Utility functions *)

\* JavaScript's %: the remainder has the sign of the dividend
JsRem(a, b) == IF a >= 0 THEN a % b ELSE 0 - ((0 - a) % b)

\* formatDuration with the test of minutes before the test of hours
formatDurationMinutesFirst(totalSeconds) ==
    LET hours   == totalSeconds \div 3600
        minutes == JsRem(totalSeconds, 3600) \div 60
        seconds == JsRem(totalSeconds, 60)
    IN  IF minutes > 0
          THEN ToString(minutes) \o "m " \o ToString(seconds) \o "s"
          ELSE IF hours > 0
                 THEN ToString(hours) \o "h " \o ToString(minutes) \o "m"
                 ELSE ToString(seconds) \o "s"

formatDuration(totalSeconds) ==
    LET hours   == totalSeconds \div 3600
        minutes == JsRem(totalSeconds, 3600) \div 60
        seconds == JsRem(totalSeconds, 60)
    IN  IF hours > 0
          THEN ToString(hours) \o "h " \o ToString(minutes) \o "m"
          ELSE IF minutes > 0
                 THEN ToString(minutes) \o "m " \o ToString(seconds) \o "s"
                 ELSE ToString(seconds) \o "s"

----------------------------------------------------------------------------
(* Documents *)

\* An optional field of a schema is <<>> when unset and <<v>> when set.
Unset == <<>>
Some(v) == <<v>>

\* A field of a request body that the client left out
Missing == "undefined"

Projects == {"p1", "p2"}
Tasks == {"t1"}

AdminUser ==
    [id |-> "admin_001", email |-> "admin@codeexanalytics.com",
     role |-> "admin", employeeId |-> "ADM001"]

\* new TimeRecord({...}) of the start handler; the schema's defaults fill
\* isManual, and endTime, duration and durationSeconds stay unset
newTimer(c, project, task, t1, t2) ==
    [id |-> "timer_" \o ToString(t1),
     userId |-> c.id,
     project |-> project,
     task |-> task,
     startTime |-> t1,
     endTime |-> Unset,
     duration |-> Unset,
     durationSeconds |-> Unset,
     isRunning |-> TRUE,
     isPaused |-> FALSE,
     isManual |-> FALSE,
     date |-> DateOf(t2)]

\* new TimeRecord({...}) of the manual-entry handler; the schema's default
\* fills isPaused
newRecord(c, project, task, startTime, endTime, t) ==
    LET durationSeconds == (endTime - startTime) \div 1000
    IN  [id |-> "manual_" \o ToString(t),
         userId |-> c.id,
         project |-> project,
         task |-> task,
         startTime |-> startTime,
         endTime |-> Some(endTime),
         duration |-> Some(formatDuration(durationSeconds)),
         durationSeconds |-> Some(durationSeconds),
         isRunning |-> FALSE,
         isPaused |-> FALSE,
         isManual |-> TRUE,
         date |-> DateOf(startTime)]

\* timeRecordSchema: project and task are required
ValidRecord(doc) == doc.project # Missing /\ doc.task # Missing

\* The unique index on TimeRecord.id
DuplicateRecord(doc) == \E r \in records : r.id = doc.id

\* The fields a handler assigned to a loaded document, as { $set: delta }.
\* Mongoose marks a path modified only when the new value differs.
Delta(loaded, assigned) ==
    [f \in {g \in DOMAIN assigned : assigned[g] # loaded[g]} |-> assigned[f]]

Apply(r, delta) ==
    [f \in DOMAIN r |-> IF f \in DOMAIN delta THEN delta[f] ELSE r[f]]

\* doc.save() of a loaded document: updateOne({ _id }, { $set: delta })
UpdateRecords(id, delta) ==
    {IF r.id = id THEN Apply(r, delta) ELSE r : r \in records}

----------------------------------------------------------------------------
(* Requests *)

Idle == [pc |-> "idle"]

NoResp ==
    [proc |-> 0, op |-> "none", caller |-> [id |-> "", role |-> ""],
     args |-> <<>>, status |-> 0, body |-> <<>>]

Response(p, op, c, args, status, body) ==
    [proc |-> p, op |-> op, caller |-> c, args |-> args,
     status |-> status, body |-> body]

\* Request p is at pc and may take its next step.  A response just sent is
\* first delivered: lastResp describes one step only.
At(p, pc) == lastResp = NoResp /\ procs[p].pc = pc

\* res.json(...) has left the server
Deliver ==
    /\ lastResp # NoResp
    /\ lastResp' = NoResp
    /\ UNCHANGED <<users, records, now, procs>>

\* The clock has advanced by fewer than MaxTicks ticks since the server
\* started, at T0's time of day
CanTick == ((now - T0) % DayMs) + TickMs <= MaxTicks * TickMs

\* The current time and the time of a second clock read of the same
\* synchronous block
ClockReads == {<<now, now>>} \cup
              (IF CanTick THEN {<<now, now + TickMs>>} ELSE {})

\* Requests in flight that will insert a time record
Inserting == {p \in Procs : procs[p].pc \in {"start_user", "start_save", "manual_save"}}

RoomForRecord == Cardinality(records) + Cardinality(Inserting) < MaxRecords

----------------------------------------------------------------------------
(* POST /api/employee/timer/start *)

\* existingTimer with isRunning left out of the filter
existingTimerAnyState(c) == {r \in records : r.userId = c.id}

\* TimeRecord.findOne({ userId: req.user.id, isRunning: true })
existingTimer(c) == {r \in records : r.userId = c.id /\ r.isRunning}

\* User.findOne({ id: req.user.id })
FindUser(c) == {u \in users : u.id = c.id}

StartFind(p, c, args) ==
    /\ At(p, "idle")
    /\ RoomForRecord
    /\ IF existingTimer(c) # {}
         THEN /\ lastResp' = Response(p, "start", c, args, 400,
                                      [error |-> "Timer already running"])
              /\ UNCHANGED procs
         ELSE /\ procs' = [procs EXCEPT ![p] =
                             [pc |-> "start_user", caller |-> c, args |-> args]]
              /\ lastResp' = NoResp
    /\ UNCHANGED <<users, records, now>>

\* user is null for a caller whose account is gone: user.firstName throws
StartUser(p) ==
    /\ At(p, "start_user")
    /\ LET c == procs[p].caller
           args == procs[p].args
       IN  IF FindUser(c) = {}
             THEN /\ lastResp' = Response(p, "start", c, args, 500,
                                          [error |-> "Cannot read properties of null"])
                  /\ procs' = [procs EXCEPT ![p] = Idle]
                  /\ UNCHANGED now
             ELSE \E t \in ClockReads :
                    /\ procs' = [procs EXCEPT ![p] =
                                   [pc |-> "start_save", caller |-> c, args |-> args,
                                    doc |-> newTimer(c, args.project, args.task, t[1], t[2])]]
                    /\ now' = t[2]
                    /\ lastResp' = NoResp
    /\ UNCHANGED <<users, records>>

\* doc.save() of a new document: validation, then insertOne
InsertRecord(p, op) ==
    LET c == procs[p].caller
        args == procs[p].args
        doc == procs[p].doc
    IN  /\ procs' = [procs EXCEPT ![p] = Idle]
        /\ IF ~ValidRecord(doc)
             THEN /\ lastResp' = Response(p, op, c, args, 500,
                                          [error |-> "TimeRecord validation failed"])
                  /\ UNCHANGED records
             ELSE IF DuplicateRecord(doc)
                    THEN /\ lastResp' = Response(p, op, c, args, 500,
                                                 [error |-> "E11000 duplicate key error"])
                         /\ UNCHANGED records
                    ELSE /\ records' = records \cup {doc}
                         /\ lastResp' = Response(p, op, c, args, 201, [record |-> doc])
        /\ UNCHANGED <<users, now>>

StartSave(p) ==
    /\ At(p, "start_save")
    /\ InsertRecord(p, "start")

----------------------------------------------------------------------------
(* POST /api/employee/timer/stop/:id and /api/employee/timer/pause/:id *)

\* FindTimer with the owner left out of the filter
FindTimerAnyOwner(id, c) == {r \in records : r.id = id}

\* TimeRecord.findOne({ id, userId: req.user.id })
FindTimer(id, c) == {r \in records : r.id = id /\ r.userId = c.id}

\* StopAssign with the assignment of durationSeconds left out
StopAssignNoSeconds(timer, endTime) ==
    LET durationSeconds == (endTime - timer.startTime) \div 1000
    IN  [endTime |-> Some(endTime),
         duration |-> Some(formatDuration(durationSeconds)),
         isRunning |-> FALSE]

\* The assignments of the stop handler to the loaded timer
StopAssign(timer, endTime) ==
    LET durationSeconds == (endTime - timer.startTime) \div 1000
    IN  [endTime |-> Some(endTime),
         duration |-> Some(formatDuration(durationSeconds)),
         durationSeconds |-> Some(durationSeconds),
         isRunning |-> FALSE]

\* PauseAssign turning the flag over, whatever the action
PauseAssignToggle(timer, action) ==
    IF action \in {"pause", "resume"} THEN [isPaused |-> ~timer.isPaused]
    ELSE [f \in {} |-> FALSE]

\* PauseAssign with a resume that sets the timer running again
PauseAssignRestart(timer, action) ==
    IF action = "pause" THEN [isPaused |-> TRUE]
    ELSE IF action = "resume" THEN [isPaused |-> FALSE, isRunning |-> TRUE]
    ELSE [f \in {} |-> FALSE]

\* The assignments of the pause handler to the loaded timer
PauseAssign(timer, action) ==
    IF action = "pause" THEN [isPaused |-> TRUE]
    ELSE IF action = "resume" THEN [isPaused |-> FALSE]
    ELSE [f \in {} |-> FALSE]

\* The first await of both handlers: 404 when no record with that id belongs
\* to the caller, else the handler's assignments to the loaded document
LoadTimer(p, op, c, args) ==
    /\ IF FindTimer(args.id, c) = {}
         THEN /\ lastResp' = Response(p, op, c, args, 404, [error |-> "Timer not found"])
              /\ UNCHANGED procs
         ELSE LET timer == CHOOSE r \in FindTimer(args.id, c) : TRUE
                  assigned == IF op = "stop" THEN StopAssign(timer, now)
                                             ELSE PauseAssign(timer, args.action)
              IN  /\ procs' = [procs EXCEPT ![p] =
                                 [pc |-> op \o "_save", caller |-> c, args |-> args,
                                  timer |-> timer, live |-> TRUE,
                                  delta |-> Delta(timer, assigned)]]
                  /\ lastResp' = NoResp
    /\ UNCHANGED <<users, records, now>>

\* timer.save() of a loaded document: nothing is sent when no path was
\* modified; DocumentNotFoundError when the document is gone
SaveTimer(p, op) ==
    LET c == procs[p].caller
        args == procs[p].args
        timer == procs[p].timer
        delta == procs[p].delta
    IN  /\ procs' = [procs EXCEPT ![p] = Idle]
        /\ IF DOMAIN delta # {} /\ ~procs[p].live
             THEN /\ lastResp' = Response(p, op, c, args, 500,
                                          [error |-> "No document found for query"])
                  /\ UNCHANGED records
             ELSE /\ records' = UpdateRecords(timer.id, delta)
                  /\ lastResp' = Response(p, op, c, args, 200,
                                          [record |-> Apply(timer, delta)])
        /\ UNCHANGED <<users, now>>

StopFind(p, c, args) ==
    /\ At(p, "idle")
    /\ LoadTimer(p, "stop", c, args)

StopSave(p) ==
    /\ At(p, "stop_save")
    /\ SaveTimer(p, "stop")

PauseFind(p, c, args) ==
    /\ At(p, "idle")
    /\ LoadTimer(p, "pause", c, args)

PauseSave(p) ==
    /\ At(p, "pause_save")
    /\ SaveTimer(p, "pause")

----------------------------------------------------------------------------
(* POST /api/employee/records/manual *)

ManualUser(p, c, args) ==
    /\ At(p, "idle")
    /\ RoomForRecord
    /\ IF FindUser(c) = {}
         THEN /\ lastResp' = Response(p, "manual", c, args, 500,
                                      [error |-> "Cannot read properties of null"])
              /\ UNCHANGED procs
         ELSE /\ procs' = [procs EXCEPT ![p] =
                             [pc |-> "manual_save", caller |-> c, args |-> args,
                              doc |-> newRecord(c, args.project, args.task,
                                                args.startTime, args.endTime, now)]]
              /\ lastResp' = NoResp
    /\ UNCHANGED <<users, records, now>>

ManualSave(p) ==
    /\ At(p, "manual_save")
    /\ InsertRecord(p, "manual")

----------------------------------------------------------------------------
(* Record queries *)

\* query.date of the listing handlers for a dateRange, built at time t
DateFilter(dateRange, t) ==
    IF dateRange = "today" THEN [op |-> "eq", date |-> DateOf(t)]
    ELSE IF dateRange = "week" THEN [op |-> "gte", date |-> DateOf(StartOfWeek(t))]
    ELSE IF dateRange = "month" THEN [op |-> "gte", date |-> DateOf(StartOfMonth(t))]
    ELSE [op |-> "none", date |-> 0]

\* A record matches query.date
DateMatches(r, filter) ==
    IF filter.op = "eq" THEN r.date = filter.date
    ELSE IF filter.op = "gte" THEN r.date >= filter.date
    ELSE TRUE

\* if (project && project !== 'all') query.project = project
ProjectMatches(r, project) ==
    project \in {Missing, "all"} \/ r.project = project

\* EmployeeQuery with the owner left out of the filter
EmployeeQueryAnyOwner(c, args, t) ==
    LET filter == DateFilter(args.dateRange, t)
    IN  {r \in records : /\ ~r.isRunning
                         /\ DateMatches(r, filter)
                         /\ ProjectMatches(r, args.project)}

\* The query of GET /api/employee/records
EmployeeQuery(c, args, t) ==
    LET filter == DateFilter(args.dateRange, t)
    IN  {r \in records : /\ r.userId = c.id
                         /\ ~r.isRunning
                         /\ DateMatches(r, filter)
                         /\ ProjectMatches(r, args.project)}

\* Every order of the records of S
RECURSIVE Orders(_)
Orders(S) ==
    IF S = {} THEN {<<>>}
    ELSE UNION {{<<r>> \o q : q \in Orders(S \ {r})} : r \in S}

\* .sort({ startTime: -1 }); the order of records of equal startTime is
\* whatever the store yields
RECURSIVE SortedByStartDesc(_)
SortedByStartDesc(S) ==
    IF S = {} THEN {<<>>}
    ELSE LET times == {r.startTime : r \in S}
             mid == CHOOSE t \in times :
                        Cardinality({x \in times : x > t}) = Cardinality(times) \div 2
         IN  {a \o b \o c : a \in SortedByStartDesc({r \in S : r.startTime > mid}),
                             b \in Orders({r \in S : r.startTime = mid}),
                             c \in SortedByStartDesc({r \in S : r.startTime < mid})}

\* GET /api/employee/records
EmployeeRecords(p, c, args) ==
    /\ At(p, "idle")
    /\ \E q \in SortedByStartDesc(EmployeeQuery(c, args, now)) :
         lastResp' = Response(p, "employeeRecords", c, args, 200, [records |-> q])
    /\ UNCHANGED <<users, records, now, procs>>

\* TimeRecord.find({ userId, date: today, isRunning: false })
TodayQuery(c, today) ==
    {r \in records : r.userId = c.id /\ r.date = today /\ ~r.isRunning}

\* TimeRecord.find({ userId, date: { $gte: startOfWeek }, isRunning: false })
WeekQuery(c, weekStart) ==
    {r \in records : r.userId = c.id /\ r.date >= weekStart /\ ~r.isRunning}

\* reduce((sum, r) => sum + (r.durationSeconds || 0), 0)
RECURSIVE SumSeconds(_)
SumSeconds(S) ==
    IF S = {} THEN 0
    ELSE LET r == CHOOSE x \in S : TRUE
         IN  (IF r.durationSeconds = Unset THEN 0 ELSE r.durationSeconds[1])
                + SumSeconds(S \ {r})

\* (seconds / 3600).toFixed(1), in tenths of an hour: the nearest tenth, the
\* one of larger magnitude of two equally near.  This is the rounding of the
\* exact quotient; the double the source rounds can fall on the other side
\* only where the exact quotient is midway between two tenths
\* (|seconds| = 180 + 360 k), which no sum of the durations used here is.
ToFixed1(seconds) ==
    IF seconds >= 0 THEN (10 * seconds + 1800) \div 3600
    ELSE 0 - ((1800 - 10 * seconds) \div 3600)

\* Math.round(Math.min((totalHours / targetHours) * 100, 100)): the integer
\* nearest to seconds / 1440, the larger of two equally near (Math.round
\* rounds halves up, also below zero)
calculateProductivityScore(weekRecords) ==
    LET seconds == SumSeconds(weekRecords)
    IN  IF seconds >= 144000 THEN 100 ELSE (2 * seconds + 1440) \div 2880

\* GET /api/employee/dashboard/stats: today's records
EmployeeStatsToday(p, c) ==
    /\ At(p, "idle")
    /\ \E t \in ClockReads :
         /\ procs' = [procs EXCEPT ![p] =
                        [pc |-> "stats_week", caller |-> c,
                         weekStart |-> DateOf(StartOfWeek(t[2])),
                         todayRecords |-> TodayQuery(c, DateOf(t[1]))]]
         /\ now' = t[2]
    /\ lastResp' = NoResp
    /\ UNCHANGED <<users, records>>

\* this week's records
EmployeeStatsWeek(p) ==
    /\ At(p, "stats_week")
    /\ procs' = [procs EXCEPT ![p] =
                   [pc |-> "stats_active", caller |-> procs[p].caller,
                    todayRecords |-> procs[p].todayRecords,
                    weekRecords |-> WeekQuery(procs[p].caller, procs[p].weekStart)]]
    /\ lastResp' = NoResp
    /\ UNCHANGED <<users, records, now>>

\* The stats object of the employee dashboard
EmployeeStats(todayRecords, weekRecords, activeTimer) ==
    [todayHours |-> ToFixed1(SumSeconds(todayRecords)),
     todaySessions |-> Cardinality(todayRecords),
     weeklyTotal |-> ToFixed1(SumSeconds(weekRecords)),
     daysThisWeek |-> Cardinality({r.date : r \in weekRecords}),
     currentStatus |-> IF activeTimer = {} THEN "Not Working"
                       ELSE IF \E r \in activeTimer : r.isPaused THEN "Paused"
                       ELSE "Working",
     productivityScore |-> calculateProductivityScore(weekRecords)]

\* the active timer (any one of the caller's running records), and the reply
EmployeeStatsActive(p) ==
    /\ At(p, "stats_active")
    /\ LET c == procs[p].caller
           found == existingTimer(c)
       IN  \E activeTimer \in (IF found = {} THEN {{}} ELSE {{r} : r \in found}) :
             lastResp' = Response(p, "employeeStats", c, <<>>, 200,
                                  [stats |-> EmployeeStats(procs[p].todayRecords,
                                                           procs[p].weekRecords,
                                                           activeTimer)])
    /\ procs' = [procs EXCEPT ![p] = Idle]
    /\ UNCHANGED <<users, records, now>>

----------------------------------------------------------------------------
(* Admin endpoints *)

\* if (req.user.role !== 'admin') return res.status(403).json(...)
Forbidden(p, op, c, args) ==
    /\ lastResp' = Response(p, op, c, args, 403, [error |-> "Access denied"])
    /\ UNCHANGED <<users, records, now, procs>>

Employees == {u \in users : u.role = "employee"}

\* GET /api/admin/employees
AdminEmployees(p, c) ==
    /\ At(p, "idle")
    /\ IF c.role # "admin"
         THEN Forbidden(p, "employees", c, <<>>)
         ELSE /\ lastResp' = Response(p, "employees", c, <<>>, 200,
                                      [employees |-> Employees])
              /\ UNCHANGED <<users, records, now, procs>>

\* n.toString().padStart(3, '0')
PadStart3(n) ==
    IF n < 10 THEN "00" \o ToString(n)
    ELSE IF n < 100 THEN "0" \o ToString(n)
    ELSE ToString(n)

\* new User({...}) of the add-employee handler
newEmployee(email, employeeCount, t) ==
    [id |-> "emp_" \o ToString(t),
     email |-> email,
     role |-> "employee",
     employeeId |-> "EMP" \o PadStart3(employeeCount + 1)]

\* The unique indexes of userSchema: id, email, employeeId
DuplicateUser(doc) ==
    \E u \in users : u.id = doc.id \/ u.email = doc.email \/ u.employeeId = doc.employeeId

\* POST /api/admin/employees: User.findOne({ email })
AddFindEmail(p, c, args) ==
    /\ At(p, "idle")
    /\ IF c.role # "admin"
         THEN Forbidden(p, "addEmployee", c, args)
         ELSE /\ IF \E u \in users : u.email = args.email
                   THEN /\ lastResp' = Response(p, "addEmployee", c, args, 400,
                                                [error |-> "Email already exists"])
                        /\ UNCHANGED procs
                   ELSE /\ procs' = [procs EXCEPT ![p] =
                                       [pc |-> "add_count", caller |-> c, args |-> args]]
                        /\ lastResp' = NoResp
              /\ UNCHANGED <<users, records, now>>

\* User.countDocuments({ role: 'employee' }), then the new document
AddCount(p) ==
    /\ At(p, "add_count")
    /\ procs' = [procs EXCEPT ![p] =
                   [pc |-> "add_save", caller |-> procs[p].caller, args |-> procs[p].args,
                    doc |-> newEmployee(procs[p].args.email, Cardinality(Employees), now)]]
    /\ lastResp' = NoResp
    /\ UNCHANGED <<users, records, now>>

\* newEmployee.save()
AddSave(p) ==
    /\ At(p, "add_save")
    /\ LET c == procs[p].caller
           args == procs[p].args
           doc == procs[p].doc
       IN  IF DuplicateUser(doc)
             THEN /\ lastResp' = Response(p, "addEmployee", c, args, 500,
                                          [error |-> "E11000 duplicate key error"])
                  /\ UNCHANGED users
             ELSE /\ users' = users \cup {doc}
                  /\ lastResp' = Response(p, "addEmployee", c, args, 201, [employee |-> doc])
    /\ procs' = [procs EXCEPT ![p] = Idle]
    /\ UNCHANGED <<records, now>>

\* DeleteUser with the role check left out
DeleteUserUnchecked(p, c, args) ==
    /\ At(p, "idle")
    /\ users' = {u \in users : u.id # args.id}
    /\ procs' = [procs EXCEPT ![p] =
                   [pc |-> "delete_records", caller |-> c, args |-> args]]
    /\ lastResp' = NoResp
    /\ UNCHANGED <<records, now>>

\* DELETE /api/admin/employees/:id: User.findOneAndDelete({ id })
DeleteUser(p, c, args) ==
    /\ At(p, "idle")
    /\ IF c.role # "admin"
         THEN Forbidden(p, "deleteEmployee", c, args)
         ELSE /\ users' = {u \in users : u.id # args.id}
              /\ procs' = [procs EXCEPT ![p] =
                             [pc |-> "delete_records", caller |-> c, args |-> args]]
              /\ lastResp' = NoResp
              /\ UNCHANGED <<records, now>>

\* DeleteRecords with the filter of deleteMany left out
DeleteEveryRecord(p) ==
    /\ At(p, "delete_records")
    /\ records' = {}
    /\ procs' = [procs EXCEPT ![p] = Idle]
    /\ lastResp' = Response(p, "deleteEmployee", procs[p].caller, procs[p].args, 200,
                            [message |-> "Employee deleted successfully"])
    /\ UNCHANGED <<users, now>>

\* TimeRecord.deleteMany({ userId: id }); a document loaded by a request in
\* flight is gone from the store
DeleteRecords(p) ==
    /\ At(p, "delete_records")
    /\ LET id == procs[p].args.id
       IN  /\ records' = {r \in records : r.userId # id}
           /\ procs' = [q \in Procs |->
                          IF q = p THEN Idle
                          ELSE IF procs[q].pc \in {"stop_save", "pause_save"}
                                  /\ procs[q].timer.userId = id
                                 THEN [procs[q] EXCEPT !.live = FALSE]
                                 ELSE procs[q]]
    /\ lastResp' = Response(p, "deleteEmployee", procs[p].caller, procs[p].args, 200,
                            [message |-> "Employee deleted successfully"])
    /\ UNCHANGED <<users, now>>

\* TimeRecord.deleteMany rejects (the store cannot be reached): the catch
\* block answers 500, with the user already removed
DeleteRecordsFail(p) ==
    /\ At(p, "delete_records")
    /\ procs' = [procs EXCEPT ![p] = Idle]
    /\ lastResp' = Response(p, "deleteEmployee", procs[p].caller, procs[p].args, 500,
                            [error |-> "deleteMany failed"])
    /\ UNCHANGED <<users, records, now>>

\* if (employeeId && employeeId !== 'all') query.userId = employeeId
EmployeeMatches(r, employeeId) ==
    employeeId \in {Missing, "all"} \/ r.userId = employeeId

\* The query of GET /api/admin/records
AdminQuery(args, t) ==
    LET filter == DateFilter(args.dateRange, t)
    IN  {r \in records : /\ ~r.isRunning
                         /\ DateMatches(r, filter)
                         /\ EmployeeMatches(r, args.employeeId)
                         /\ ProjectMatches(r, args.project)}

\* .limit(100)
ListLimit == 100

Limit(q, n) == SubSeq(q, 1, IF Len(q) < n THEN Len(q) ELSE n)

\* GET /api/admin/records
AdminRecords(p, c, args) ==
    /\ At(p, "idle")
    /\ IF c.role # "admin"
         THEN Forbidden(p, "adminRecords", c, args)
         ELSE /\ \E q \in SortedByStartDesc(AdminQuery(args, now)) :
                   lastResp' = Response(p, "adminRecords", c, args, 200,
                                        [records |-> Limit(q, ListLimit)])
              /\ UNCHANGED <<users, records, now, procs>>

\* GET /api/admin/dashboard/stats: today's records
AdminStatsToday(p, c) ==
    /\ At(p, "idle")
    /\ IF c.role # "admin"
         THEN Forbidden(p, "adminStats", c, <<>>)
         ELSE /\ \E t \in ClockReads :
                   /\ procs' = [procs EXCEPT ![p] =
                                  [pc |-> "astats_week", caller |-> c,
                                   weekStart |-> DateOf(StartOfWeek(t[2])),
                                   todayRecords |-> {r \in records : r.date = DateOf(t[1])
                                                                     /\ ~r.isRunning}]]
                   /\ now' = t[2]
              /\ lastResp' = NoResp
              /\ UNCHANGED <<users, records>>

\* this week's records
AdminStatsWeek(p) ==
    /\ At(p, "astats_week")
    /\ procs' = [procs EXCEPT ![p] =
                   [pc |-> "astats_active", caller |-> procs[p].caller,
                    todayRecords |-> procs[p].todayRecords,
                    weekRecords |-> {r \in records : r.date >= procs[p].weekStart
                                                     /\ ~r.isRunning}]]
    /\ lastResp' = NoResp
    /\ UNCHANGED <<users, records, now>>

\* TimeRecord.countDocuments({ isRunning: true })
AdminStatsActive(p) ==
    /\ At(p, "astats_active")
    /\ procs' = [procs EXCEPT ![p] =
                   [pc |-> "astats_employees", caller |-> procs[p].caller,
                    todayRecords |-> procs[p].todayRecords,
                    weekRecords |-> procs[p].weekRecords,
                    activeTimers |-> Cardinality({r \in records : r.isRunning})]]
    /\ lastResp' = NoResp
    /\ UNCHANGED <<users, records, now>>

\* (weekSeconds / 3600 / Math.max(1, days)).toFixed(1), in tenths of an hour
AvgFixed1(seconds, days) ==
    LET d == IF days < 1 THEN 1 ELSE days
    IN  IF seconds >= 0 THEN (10 * seconds + 1800 * d) \div (3600 * d)
        ELSE 0 - ((1800 * d - 10 * seconds) \div (3600 * d))

\* The stats object of the admin dashboard
AdminStats(todayRecords, weekRecords, activeTimers, totalEmployees) ==
    [totalHoursToday |-> ToFixed1(SumSeconds(todayRecords)),
     weeklyTotal |-> ToFixed1(SumSeconds(weekRecords)),
     activeTimersNow |-> activeTimers,
     daysThisWeek |-> Cardinality({r.date : r \in weekRecords}),
     totalTeamMembers |-> totalEmployees,
     activeToday |-> Cardinality({r.userId : r \in todayRecords}),
     avgHoursPerDay |-> AvgFixed1(SumSeconds(weekRecords),
                                  Cardinality({r.date : r \in weekRecords}))]

\* User.countDocuments({ role: 'employee' }), and the reply
AdminStatsEmployees(p) ==
    /\ At(p, "astats_employees")
    /\ lastResp' = Response(p, "adminStats", procs[p].caller, <<>>, 200,
                            [stats |-> AdminStats(procs[p].todayRecords, procs[p].weekRecords,
                                                  procs[p].activeTimers,
                                                  Cardinality(Employees))])
    /\ procs' = [procs EXCEPT ![p] = Idle]
    /\ UNCHANGED <<users, records, now>>

----------------------------------------------------------------------------
(* The clock *)

Tick ==
    /\ lastResp = NoResp
    /\ CanTick
    /\ now' = now + TickMs
    /\ lastResp' = NoResp
    /\ UNCHANGED <<users, records, procs>>

----------------------------------------------------------------------------
(* Initial state, inputs, specifications *)

Employee1 == [id |-> "emp_1000", email |-> "a@x.com", role |-> "employee", employeeId |-> "EMP001"]
Employee2 == [id |-> "emp_2000", email |-> "b@x.com", role |-> "employee", employeeId |-> "EMP002"]

\* The payload of the token a login hands to a user
TokenOf(u) == [id |-> u.id, role |-> u.role]

\* jwt.verify succeeded: req.user is the payload of a token issued at login
Tokens == {TokenOf(u) : u \in {AdminUser, Employee1, Employee2}}
EmployeeTokens == {c \in Tokens : c.role = "employee"}

\* { project, task } of a request body
Bodies(projects) ==
    {[project |-> x, task |-> "t1"] : x \in projects \cup {Missing}}
        \cup {[project |-> "p1", task |-> Missing]}

\* startTime and endTime of a manual entry: an entry in the past, an entry
\* that starts after every instant of the model's clock, and an entry whose
\* end lies before its start
ManualOld == T0 - 5 * DayMs
ManualFuture == EndOfTime + 100
PastSpan == <<ManualOld, ManualOld + 3661000>>
FutureSpan == <<ManualFuture, ManualFuture + 125000>>
ReversedSpan == <<ManualOld + 3661000, ManualOld>>
ManualSpans == {PastSpan, FutureSpan, ReversedSpan}

\* { project, task, startTime, endTime } of a request body
ManualBodies(projects, spans) ==
    {[project |-> b.project, task |-> b.task, startTime |-> s[1], endTime |-> s[2]] :
        b \in Bodies(projects), s \in spans}

\* Ids a client may name: those of the stored records and one of no record
RecordIds == {r.id : r \in records} \cup {"timer_0"}

\* The 'action' of a pause request
PauseActions == {"pause", "resume", Missing}

Init ==
    /\ users = {AdminUser, Employee1, Employee2}
    /\ records = {}
    /\ now = T0
    /\ procs = [p \in Procs |-> Idle]
    /\ lastResp = NoResp

\* Query parameters of the listings
DateRanges == {"today", "week", "month", Missing}
ProjectFilters == Projects \cup {"all", Missing}
EmployeeFilters == {[dateRange |-> d, project |-> x] : d \in DateRanges, x \in ProjectFilters}

\* A step of a start or manual-entry request in slot p, a new request being
\* one of a caller of cs about a project of ps, a manual entry one of a span
\* of ss
CreateStep(p, cs, ps, ss) ==
    \/ \E c \in cs, b \in Bodies(ps) : StartFind(p, c, b)
    \/ StartUser(p)
    \/ StartSave(p)
    \/ \E c \in cs, b \in ManualBodies(ps, ss) : ManualUser(p, c, b)
    \/ ManualSave(p)

\* A step of a stop request in slot p
StopStep(p, cs) ==
    \/ \E c \in cs, id \in RecordIds : StopFind(p, c, [id |-> id])
    \/ StopSave(p)

\* A step of a pause or resume request in slot p
PauseStep(p, cs) ==
    \/ \E c \in cs, id \in RecordIds, a \in PauseActions :
         PauseFind(p, c, [id |-> id, action |-> a])
    \/ PauseSave(p)

\* A step of a listing or dashboard request in slot p by a caller of cs, a
\* listing being one with a filter of fs
QueryStep(p, cs, fs) ==
    \/ \E c \in cs, f \in fs : EmployeeRecords(p, c, f)
    \/ \E c \in cs : EmployeeStatsToday(p, c)
    \/ EmployeeStatsWeek(p)
    \/ EmployeeStatsActive(p)

\* Request parameters of the admin endpoints
Emails == {"a@x.com", "b@x.com", "c@x.com"}
UserIds == {u.id : u \in users} \cup {"emp_0"}
AdminFilters ==
    {[dateRange |-> d, employeeId |-> e, project |-> x] :
        d \in DateRanges, e \in {Employee1.id, "all", Missing}, x \in ProjectFilters}

\* A step of an admin request in slot p by a caller of cs, a listing being
\* one with a filter of fs
AdminStep(p, cs, fs) ==
    \/ \E c \in cs : AdminEmployees(p, c)
    \/ \E c \in cs, e \in Emails : AddFindEmail(p, c, [email |-> e])
    \/ AddCount(p)
    \/ AddSave(p)
    \/ \E c \in cs, id \in UserIds : DeleteUser(p, c, [id |-> id])
    \/ DeleteRecords(p)
    \/ \E c \in cs, f \in fs : AdminRecords(p, c, f)
    \/ \E c \in cs : AdminStatsToday(p, c)
    \/ AdminStatsWeek(p)
    \/ AdminStatsActive(p)
    \/ AdminStatsEmployees(p)

E1 == {TokenOf(Employee1)}

\* One employee's timer and manual-entry requests, interleaved
Next ==
    \/ \E p \in Procs : CreateStep(p, E1, {"p1"}, ManualSpans)
    \/ \E p \in Procs : StopStep(p, E1)
    \/ \E p \in Procs : PauseStep(p, E1)
    \/ Tick
    \/ Deliver

Spec == Init /\ [][Next]_vars

\* One employee's requests, one at a time
LifecycleNext ==
    \/ CreateStep(1, E1, {"p1"}, ManualSpans)
    \/ StopStep(1, E1)
    \/ PauseStep(1, E1)
    \/ QueryStep(1, E1, EmployeeFilters)
    \/ Tick
    \/ Deliver

LifecycleSpec == Init /\ [][LifecycleNext]_vars

\* Two employees' requests, one at a time: both create records, the first
\* one stops, pauses and resumes
OwnerNext ==
    \/ CreateStep(1, EmployeeTokens, {"p1"}, {PastSpan})
    \/ StopStep(1, E1)
    \/ PauseStep(1, E1)
    \/ Tick
    \/ Deliver

OwnerSpec == Init /\ [][OwnerNext]_vars

\* Two employees' records of two projects, and their listings and dashboards
QueryNext ==
    \/ CreateStep(1, EmployeeTokens, Projects, {FutureSpan})
    \/ StopStep(1, E1)
    \/ QueryStep(1, EmployeeTokens,
                 {f \in EmployeeFilters : f.project = Missing \/ f.dateRange = Missing})
    \/ Tick
    \/ Deliver

QuerySpec == Init /\ [][QueryNext]_vars

\* The admin endpoints called by the admin and by the employees, one request
\* at a time, over the records an employee creates
AccessNext ==
    \/ AdminStep(1, Tokens, {f \in AdminFilters : f.project = Missing /\ f.dateRange \in {"week", Missing}})
    \/ CreateStep(1, E1, {"p1"}, {PastSpan})
    \/ Tick
    \/ Deliver

AccessSpec == Init /\ [][AccessNext]_vars

\* A step of a delete-employee request in slot p by a caller of cs
DeleteStep(p, cs) ==
    \/ \E c \in cs, id \in UserIds : DeleteUser(p, c, [id |-> id])
    \/ DeleteRecords(p)

Admin == {TokenOf(AdminUser)}

\* The admin deletes users, one request at a time, while both employees
\* create records
CascadeNext ==
    \/ DeleteStep(1, Admin)
    \/ CreateStep(1, EmployeeTokens, {"p1"}, {PastSpan})
    \/ Tick
    \/ Deliver

CascadeSpec == Init /\ [][CascadeNext]_vars

\* A step of an admin listing or dashboard request in slot p by a caller of
\* cs, a listing being one with a filter of fs
AdminReadStep(p, cs, fs) ==
    \/ \E c \in cs, f \in fs : AdminRecords(p, c, f)
    \/ \E c \in cs : AdminStatsToday(p, c)
    \/ AdminStatsWeek(p)
    \/ AdminStatsActive(p)
    \/ AdminStatsEmployees(p)

\* The server starts on any day of a week: at T0's time of day on Monday
\* 1970-01-05, Tuesday 1970-01-06, ... or Sunday 1970-01-11, each a moment
\* before midnight
WeekdayOffsets == 1..7

WeekInit ==
    /\ users = {AdminUser, Employee1, Employee2}
    /\ records = {}
    /\ now \in {T0 + k * DayMs : k \in WeekdayOffsets}
    /\ procs = [p \in Procs |-> Idle]
    /\ lastResp = NoResp

\* Manual entries of the week of Monday 1970-01-05: an hour on Monday
\* morning, an hour on Wednesday morning, forty hours from Monday 00:00, and
\* an entry on Wednesday whose end lies an hour and a second before its start
HourMs == 3600000
Monday == 4 * DayMs
MondaySpan == <<Monday + 9 * HourMs, Monday + 10 * HourMs>>
WednesdaySpan == <<Monday + 2 * DayMs + 9 * HourMs, Monday + 2 * DayMs + 10 * HourMs>>
FortyHourSpan == <<Monday, Monday + 40 * HourMs>>
ReversedWednesdaySpan ==
    <<Monday + 2 * DayMs + 10 * HourMs + 1000, Monday + 2 * DayMs + 9 * HourMs>>
WeekSpans == {MondaySpan, WednesdaySpan, FortyHourSpan, ReversedWednesdaySpan}

WeekFilter == [dateRange |-> "week", project |-> Missing]
AdminWeekFilter == [dateRange |-> "week", employeeId |-> Missing, project |-> Missing]

\* One employee's timers and manual entries of one week, the employee's
\* dashboard and 'week' listing and the admin's, one request at a time
WeekNext ==
    \/ CreateStep(1, E1, {"p1"}, WeekSpans)
    \/ StopStep(1, E1)
    \/ QueryStep(1, E1, {WeekFilter})
    \/ AdminReadStep(1, Admin, {AdminWeekFilter})
    \/ Tick
    \/ Deliver

WeekSpec == WeekInit /\ [][WeekNext]_vars

\* A step of an add-employee request in slot p by a caller of cs
AddStep(p, cs) ==
    \/ \E c \in cs, e \in Emails : AddFindEmail(p, c, [email |-> e])
    \/ AddCount(p)
    \/ AddSave(p)

\* The admin's add-employee and delete-employee requests, interleaved
NumberingNext ==
    \/ \E p \in Procs : AddStep(p, Admin)
    \/ \E p \in Procs : DeleteStep(p, Admin)
    \/ Tick
    \/ Deliver

NumberingSpec == Init /\ [][NumberingNext]_vars

\* Lengths in seconds of manual entries, on both sides of the minute and of
\* the hour
FormatSeconds == {0, 1, 45, 59, 60, 61, 125, 3599, 3600, 3601, 3661, 7199, 7200, 86400, 360000}
FormatSpans == {<<ManualOld, ManualOld + 1000 * n>> : n \in FormatSeconds}

\* One employee's manual entries of these lengths, and timers started and
\* stopped, one request at a time
FormatNext ==
    \/ CreateStep(1, E1, {"p1"}, FormatSpans)
    \/ StopStep(1, E1)
    \/ Tick
    \/ Deliver

FormatSpec == Init /\ [][FormatNext]_vars

\* The store after employee c has posted n manual entries of one hour each,
\* one in each of the last n hours, alternating between the two projects
ManualHistory(c, n) ==
    {newRecord(c, IF k % 2 = 0 THEN "p1" ELSE "p2", "t1",
               T0 - k * HourMs, T0 - (k - 1) * HourMs, T0 - k) : k \in 1..n}

\* Numbers of entries in a history: none, one, as many as one page of the
\* admin listing holds, and one more
HistorySizes == {0, 1, ListLimit, ListLimit + 1}

\* The server with a history of the first employee in the store
ListingInit ==
    /\ users = {AdminUser, Employee1, Employee2}
    /\ records \in {ManualHistory(TokenOf(Employee1), n) : n \in HistorySizes}
    /\ now = T0
    /\ procs = [p \in Procs |-> Idle]
    /\ lastResp = NoResp

\* Filters of an admin listing restricted to one employee
AdminEmployeeFilters ==
    {[dateRange |-> d, employeeId |-> c.id, project |-> x] :
        d \in DateRanges, c \in EmployeeTokens, x \in ProjectFilters}

\* The two listings, one request at a time, over the histories and the
\* records the employees add
ListingNext ==
    \/ \E f \in AdminEmployeeFilters : AdminRecords(1, TokenOf(AdminUser), f)
    \/ \E c \in EmployeeTokens, f \in EmployeeFilters : EmployeeRecords(1, c, f)
    \/ CreateStep(1, EmployeeTokens, Projects, {PastSpan})
    \/ Tick
    \/ Deliver

ListingSpec == ListingInit /\ [][ListingNext]_vars

\* The admin deletes users while the employees' start and manual-entry
\* requests are in flight; the second store call of a deletion may fail
OrphanNext ==
    \/ DeleteStep(1, Admin)
    \/ DeleteRecordsFail(1)
    \/ CreateStep(2, EmployeeTokens, {"p1"}, {PastSpan})
    \/ Tick
    \/ Deliver

OrphanSpec == Init /\ [][OrphanNext]_vars

----------------------------------------------------------------------------
(* Properties *)

\* The records of user u that are Running or Paused (not yet stopped)
RunningOf(u) == {r \in records : r.userId = u /\ r.isRunning}

RecordById(id) == {r \in records : r.id = id}

\* C1: in every reachable state each user owns at most one record with
\* isRunning = true, also when requests of one user interleave.
C1_OneRunningPerUser ==
    \A u \in {r.userId : r \in records} : Cardinality(RunningOf(u)) <= 1

\* C2: the reply to a well-formed start is either a conflict error, for a
\* user who owns a Running or Paused record, with the store unchanged; or a
\* success, for a user who owned none, that adds a record with
\* isRunning = true, isPaused = false and no end time, after which the user
\* owns exactly one Running record.
C2_StartConflictOrCreate ==
    [][(lastResp = NoResp /\ lastResp'.op = "start" /\ lastResp'.args.project # Missing
            /\ lastResp'.args.task # Missing)
        => LET u == lastResp'.caller.id
           IN  IF RunningOf(u) # {}
                 THEN lastResp'.status = 400 /\ records' = records
                 ELSE /\ lastResp'.status = 201
                      /\ \E r \in records' \ records :
                           /\ records' = records \cup {r}
                           /\ lastResp'.body = [record |-> r]
                           /\ r.userId = u /\ r.isRunning /\ ~r.isPaused
                           /\ r.endTime = Unset
                      /\ Cardinality({r \in records' : r.userId = u /\ r.isRunning}) = 1]_vars

\* C3: every record with isPaused = true has isRunning = true.
C3_PausedImpliesRunning ==
    \A r \in records : r.isPaused => r.isRunning

\* C4: endTime, duration and durationSeconds of a record are all set or all
\* unset, and all unset on a record with isRunning = true.
C4_ClosingFieldsTogether ==
    \A r \in records :
        \/ r.endTime = Unset /\ r.duration = Unset /\ r.durationSeconds = Unset
        \/ r.endTime # Unset /\ r.duration # Unset /\ r.durationSeconds # Unset
             /\ ~r.isRunning

\* C4's case: a stop has just closed a timer while another record is still
\* running
C4_Witness ==
    /\ lastResp.op = "stop" /\ lastResp.status = 200
    /\ \E r \in records : r.id = lastResp.args.id /\ ~r.isManual /\ r.endTime # Unset
    /\ \E r \in records : r.isRunning

\* C5: once endTime and durationSeconds of a record are set, no later step
\* changes them.
C5_ClosedOnce ==
    [][\A r \in records : \A r2 \in records' :
          (r2.id = r.id /\ r.endTime # Unset)
             => r2.endTime = r.endTime /\ r2.durationSeconds = r.durationSeconds]_vars

\* C6: a stop by the owner of a record succeeds in whatever state the record
\* is, and leaves it with isRunning = false, endTime the time of the stop,
\* durationSeconds = floor((endTime - startTime) / 1000) >= 0 and
\* duration = format(durationSeconds).
C6_StopCloses ==
    (lastResp.op = "stop" /\ FindTimer(lastResp.args.id, lastResp.caller) # {})
        => /\ lastResp.status = 200
           /\ \A r \in FindTimer(lastResp.args.id, lastResp.caller) :
                /\ ~r.isRunning
                /\ r.endTime # Unset /\ r.durationSeconds # Unset /\ r.duration # Unset
                /\ r.endTime[1] <= now
                /\ r.durationSeconds[1] = (r.endTime[1] - r.startTime) \div 1000
                /\ r.durationSeconds[1] >= 0
                /\ r.duration[1] = formatDuration(r.durationSeconds[1])

\* C7: a manual entry whose endTime is earlier than its startTime is answered
\* with an error and creates no record, so no stored record has a negative
\* durationSeconds.
C7_NoNegativeManual ==
    /\ (lastResp.op = "manual" /\ lastResp.args.endTime < lastResp.args.startTime)
          => lastResp.status >= 400
    /\ \A r \in records : r.durationSeconds # Unset => r.durationSeconds[1] >= 0

\* C8: for every date range and project filter, every record the employee's
\* listing returns, and every record the employee's dashboard counts, is
\* owned by the caller and has isRunning = false. The query is evaluated for
\* every filter over every store and clock value: those of the states with no
\* response on its way out, which a response on its way out leaves as they are.
C8_EmployeeScoped ==
    /\ lastResp = NoResp
          => \A c \in EmployeeTokens, f \in EmployeeFilters :
               \A r \in EmployeeQuery(c, f, now) : r.userId = c.id /\ ~r.isRunning
    /\ lastResp.op = "employeeRecords"
          => \A i \in 1..Len(lastResp.body.records) :
               /\ lastResp.body.records[i].userId = lastResp.caller.id
               /\ ~lastResp.body.records[i].isRunning
    /\ \A p \in Procs :
         /\ procs[p].pc \in {"stats_week", "stats_active"}
              => \A r \in procs[p].todayRecords :
                   r.userId = procs[p].caller.id /\ ~r.isRunning
         /\ procs[p].pc = "stats_active"
              => \A r \in procs[p].weekRecords :
                   r.userId = procs[p].caller.id /\ ~r.isRunning

\* C8's case: a listing has returned a record of the caller while the store
\* also holds a closed record of the other employee that passes the same
\* date and project filters
C8_Witness ==
    /\ lastResp.op = "employeeRecords"
    /\ Len(lastResp.body.records) > 0
    /\ \E r \in records : r.userId # lastResp.caller.id /\ ~r.isRunning
                          /\ DateMatches(r, DateFilter(lastResp.args.dateRange, now))
                          /\ ProjectMatches(r, lastResp.args.project)

\* The caller of the request that takes the step, when a request takes it
StepCallers ==
    {lastResp'.caller.id : x \in {y \in {1} : lastResp' # NoResp}}
        \cup {procs[p].caller.id : p \in {q \in Procs : procs[q].pc # "idle"
                                                         /\ procs'[q] # procs[q]}}
        \cup {procs'[p].caller.id : p \in {q \in Procs : procs'[q].pc # "idle"
                                                          /\ procs'[q] # procs[q]}}

\* C9: pause, resume and stop of a record id that does not exist or belongs
\* to another user are answered with a not-found error and change no record;
\* no step of a request of one user changes, removes or adds a record of
\* another user.
C9_OwnRecordsOnly ==
    [][/\ (lastResp = NoResp /\ lastResp'.op \in {"stop", "pause"}
             /\ FindTimer(lastResp'.args.id, lastResp'.caller) = {})
          => lastResp'.status = 404 /\ records' = records
       /\ \A p \in Procs :
            (procs[p].pc = "idle" /\ procs'[p].pc \in {"stop_save", "pause_save"})
               => FindTimer(procs'[p].args.id, procs'[p].caller) # {}
       /\ \A r \in records : r.userId \notin StepCallers => r \in records'
       /\ \A r \in records' : r.userId \notin StepCallers => r \in records]_vars

\* C9's case: a stop or pause of a record of the other employee has been
\* answered with not-found
C9_Witness ==
    /\ lastResp.op \in {"stop", "pause"}
    /\ lastResp.status = 404
    /\ \E r \in records : r.id = lastResp.args.id /\ r.userId # lastResp.caller.id

AdminOps == {"employees", "addEmployee", "deleteEmployee", "adminRecords", "adminStats"}

AdminPcs == {"add_count", "add_save", "delete_records",
             "astats_week", "astats_active", "astats_employees"}

\* C10: an admin-only operation called with a token whose role is not admin
\* is answered 403 with an error and no data, goes no further, and leaves
\* users and records unchanged.
C10_AdminOnly ==
    [][/\ (lastResp = NoResp /\ lastResp'.op \in AdminOps
             /\ lastResp'.caller.role # "admin")
          => /\ lastResp'.status = 403
             /\ lastResp'.body = [error |-> "Access denied"]
             /\ users' = users /\ records' = records
       /\ \A p \in Procs :
            procs'[p].pc \in AdminPcs => procs'[p].caller.role = "admin"]_vars

\* C10's case: an employee's delete request has been refused while the store
\* holds that user and a record
C10_Witness ==
    /\ lastResp.op = "deleteEmployee"
    /\ lastResp.caller.role = "employee"
    /\ lastResp.status = 403
    /\ \E u \in users : u.id = lastResp.args.id
    /\ \E r \in records : r.userId = lastResp.args.id

\* C11: a successful deleteEmployee(id) removes the user with that id (the
\* first store call, which changes no record) and exactly the records whose
\* userId is id (the second, which changes no user); every other user and
\* every record of another user is left as it was.
C11_DeleteCascade ==
    [][/\ \A p \in Procs :
            (procs[p].pc = "idle" /\ procs'[p].pc = "delete_records")
               => /\ users' = {u \in users : u.id # procs'[p].args.id}
                  /\ records' = records
       /\ (lastResp = NoResp /\ lastResp'.op = "deleteEmployee" /\ lastResp'.status = 200)
            => /\ users' = users
               /\ \A u \in users' : u.id # lastResp'.args.id
               /\ records' = {r \in records : r.userId # lastResp'.args.id}]_vars

\* C11's case: an employee has been deleted while the other employee, who
\* owns a record, is still there
C11_Witness ==
    /\ lastResp.op = "deleteEmployee" /\ lastResp.status = 200
    /\ lastResp.args.id \in {Employee1.id, Employee2.id}
    /\ \E u \in users : u.role = "employee" /\ \E r \in records : r.userId = u.id

\* The store without the manual records of user u
WithoutManual(u) == {r \in records : ~(r.isManual /\ r.userId = u)}

\* C12: a manual entry is created closed, with isManual = true,
\* isRunning = false and the caller's start and end; start is answered as it
\* would be with the caller's manual records absent (a conflict exactly when
\* a record other than those is running, a success exactly when the new
\* document is valid and none other than those has its id); and a manual
\* entry that is valid and whose id no record has succeeds while the caller
\* has a running timer.
C12_ManualApart ==
    [][/\ (lastResp = NoResp /\ lastResp'.op = "start")
            => LET u == lastResp'.caller.id
               IN  /\ lastResp'.status = 400
                        <=> \E r \in WithoutManual(u) : r.userId = u /\ r.isRunning
                   /\ \A p \in Procs :
                        procs[p].pc = "start_save" /\ procs'[p].pc = "idle"
                           => (lastResp'.status = 201
                                 <=> /\ ValidRecord(procs[p].doc)
                                     /\ \A r \in WithoutManual(u) : r.id # procs[p].doc.id)
       /\ (lastResp = NoResp /\ lastResp'.op = "manual")
            => /\ lastResp'.status = 201
                    => \E r \in records' \ records :
                         /\ records' = records \cup {r}
                         /\ r.isManual /\ ~r.isRunning
                         /\ r.startTime = lastResp'.args.startTime
                         /\ r.endTime = Some(lastResp'.args.endTime)
               /\ \A p \in Procs :
                    (/\ procs[p].pc = "manual_save" /\ procs'[p].pc = "idle"
                     /\ RunningOf(lastResp'.caller.id) # {}
                     /\ ValidRecord(procs[p].doc)
                     /\ ~DuplicateRecord(procs[p].doc))
                       => lastResp'.status = 201
       /\ \A r \in records' : r.isManual => ~r.isRunning]_vars

\* C12's case: a start has succeeded for a user who owns a manual record
C12_Witness ==
    /\ lastResp.op = "start" /\ lastResp.status = 201
    /\ \E r \in records : r.isManual /\ r.userId = lastResp.caller.id

\* The Monday on or before day d (day 0, 1970-01-01, was a Thursday)
MondayOf(d) == d - ((d + 3) % 7)

\* C13: on every day of the week, the start-of-week the employee dashboard
\* and the admin dashboard compute is the Monday on or before the day of the
\* request, and a 'week' listing returns exactly the closed records in its
\* scope dated on or after that Monday.
C13_WeekStartsMonday ==
    [][/\ \A p \in Procs :
            (procs[p].pc = "idle" /\ procs'[p].pc \in {"stats_week", "astats_week"})
               => procs'[p].weekStart = MondayOf(DateOf(now'))
       /\ (/\ lastResp = NoResp
           /\ lastResp'.op \in {"employeeRecords", "adminRecords"}
           /\ lastResp'.status = 200
           /\ lastResp'.args.dateRange = "week")
            => {lastResp'.body.records[i] : i \in 1..Len(lastResp'.body.records)}
                 = {r \in records :
                      /\ ~r.isRunning
                      /\ lastResp'.op = "employeeRecords" => r.userId = lastResp'.caller.id
                      /\ r.date >= MondayOf(DateOf(now))}]_vars

\* The day on which the server started
StartDay == DateOf(now - ((now - T0) % DayMs))

\* C14: the weeklyTotal of a dashboard is the sum of durationSeconds of the
\* closed records in its scope dated on or after the Monday of the current
\* week, in hours to one decimal; daysThisWeek is the number of distinct
\* dates of those records; avgHoursPerDay of the admin dashboard is that sum
\* over max(1, daysThisWeek); running records count for nothing.  Stated for
\* requests served before midnight passes.
C14_WeeklyAggregation ==
    (/\ lastResp.op \in {"employeeStats", "adminStats"}
     /\ lastResp.status = 200
     /\ DateOf(now) = StartDay)
       => LET week == {r \in records :
                        /\ ~r.isRunning
                        /\ lastResp.op = "employeeStats" => r.userId = lastResp.caller.id
                        /\ r.date >= MondayOf(DateOf(now))}
              days == Cardinality({r.date : r \in week})
              stats == lastResp.body.stats
          IN  /\ stats.weeklyTotal = ToFixed1(SumSeconds(week))
              /\ stats.daysThisWeek = days
              /\ lastResp.op = "adminStats"
                   => stats.avgHoursPerDay = AvgFixed1(SumSeconds(week), days)

\* C15: the productivity score of an employee dashboard is an integer in
\* 0..100: 0 when the seconds of the week's records sum to 0, 100 when they
\* sum to 40 hours or more, and the rounding of hours / 40 * 100 in between.
\* The week's records are those the handler selects; stated for requests
\* served before midnight passes.
C15_ScoreInRange ==
    (lastResp.op = "employeeStats" /\ lastResp.status = 200 /\ DateOf(now) = StartDay)
       => LET seconds == SumSeconds(WeekQuery(lastResp.caller, DateOf(StartOfWeek(now))))
              score == lastResp.body.stats.productivityScore
          IN  /\ score \in 0..100
              /\ seconds = 0 => score = 0
              /\ seconds >= 40 * 3600 => score = 100
              /\ (0 < seconds /\ seconds < 40 * 3600)
                   => score = (2 * seconds + 1440) \div 2880

\* C16: an addEmployee by an admin with an email no user has succeeds and
\* stores a new employee; the number the handler gives it is "EMP" and
\* count(employees) + 1 padded to 3 digits, with the count as the handler
\* reads it, and no other user holds that number.
C16_EmployeeNumbering ==
    [][/\ \A p \in Procs :
            (procs[p].pc = "add_count" /\ procs'[p].pc = "add_save")
               => procs'[p].doc.employeeId
                    = "EMP" \o PadStart3(Cardinality(Employees) + 1)
       /\ (/\ lastResp = NoResp
           /\ lastResp'.op = "addEmployee"
           /\ lastResp'.caller.role = "admin"
           /\ \A u \in users : u.email # lastResp'.args.email)
             => /\ lastResp'.status = 201
                /\ \E e \in users' \ users :
                     /\ users' = users \cup {e}
                     /\ lastResp'.body = [employee |-> e]
                     /\ e.email = lastResp'.args.email
                     /\ e = procs[lastResp'.proc].doc
                     /\ \A u \in users : u.employeeId # e.employeeId]_vars

\* format(n) as the specification gives it for a non-negative integer n
FormatBucket(n) ==
    IF n >= 3600
      THEN ToString(n \div 3600) \o "h " \o ToString((n % 3600) \div 60) \o "m"
      ELSE IF n >= 60
             THEN ToString(n \div 60) \o "m " \o ToString(n % 60) \o "s"
             ELSE ToString(n) \o "s"

\* C17: for a non-negative number of seconds the duration string is
\* "{h}h {m}m" from 3600 on, "{m}m {s}s" from 60 to 3599 and "{s}s" below
\* 60: so it is for the duration of every stored record and for every
\* length of FormatSeconds, and format(3661) = "1h 1m",
\* format(125) = "2m 5s", format(45) = "45s".
C17_FormatBuckets ==
    /\ \A r \in records :
         (r.durationSeconds # Unset /\ r.durationSeconds[1] >= 0)
            => r.duration = Some(FormatBucket(r.durationSeconds[1]))
    /\ lastResp.op \in {"manual", "stop"}
         => \A n \in FormatSeconds : formatDuration(n) = FormatBucket(n)
    /\ lastResp.op \in {"manual", "stop"}
         => /\ formatDuration(3661) = "1h 1m"
            /\ formatDuration(125) = "2m 5s"
            /\ formatDuration(45) = "45s"

\* C17's case: entries of 3661 s and of 45 s are stored, the second just
\* created
C17_Witness ==
    /\ lastResp.op = "manual" /\ lastResp.status = 201
    /\ lastResp.body.record.durationSeconds = Some(45)
    /\ lastResp.body.record.duration = Some("45s")
    /\ \E r \in records : r.durationSeconds = Some(3661) /\ r.duration = Some("1h 1m")

\* C18: the date of every record is the calendar date of its startTime, and
\* no step changes the date or the startTime of a stored record.
C18_DateOfStart ==
    [][/\ \A r \in records' : r.date = DateOf(r.startTime)
       /\ \A r \in records : \A r2 \in records' :
            r2.id = r.id => r2.date = r.date /\ r2.startTime = r.startTime]_vars

\* C19: a pause or resume of a record the caller owns succeeds whatever the
\* state of the record and changes nothing in the store but that record's
\* isPaused, which becomes true for pause and false for resume; applied to a
\* record that already has that value it leaves the store as it is.
C19_PauseIdempotent ==
    [][(/\ lastResp = NoResp
        /\ lastResp'.op = "pause"
        /\ lastResp'.args.action \in {"pause", "resume"}
        /\ FindTimer(lastResp'.args.id, lastResp'.caller) # {})
          => LET paused == lastResp'.args.action = "pause"
             IN  /\ lastResp'.status = 200
                 /\ records' = {IF r.id = lastResp'.args.id
                                  THEN [r EXCEPT !.isPaused = paused] ELSE r : r \in records}
                 /\ (\A r \in FindTimer(lastResp'.args.id, lastResp'.caller) :
                        r.isPaused = paused) => records' = records
                 /\ lastResp'.body.record.isPaused = paused]_vars

\* C19's case: a second pause has loaded a record that an earlier pause left
\* paused, so its save has nothing to write
C19_Witness ==
    \E p \in Procs :
        /\ procs[p].pc = "pause_save"
        /\ procs[p].args.action = "pause"
        /\ procs[p].timer.isPaused
        /\ DOMAIN procs[p].delta = {}
        /\ procs[p].timer \in records

\* C20: a record with isRunning = false has isRunning = false after every
\* step that leaves it in the store.
C20_StoppedTerminal ==
    [][\A r \in records : \A r2 \in records' :
          (r2.id = r.id /\ ~r.isRunning) => ~r2.isRunning]_vars

\* C20's case: a resume has been applied to a stopped timer
C20_Witness ==
    /\ lastResp.op = "pause" /\ lastResp.status = 200
    /\ lastResp.args.action = "resume"
    /\ \E r \in records : r.id = lastResp.args.id /\ ~r.isRunning /\ ~r.isManual

\* The records of a listing
ListedRecords(q) == {q[i] : i \in 1..Len(q)}

\* C21: for every store, user and date-range and project filter, the admin
\* listing restricted to that user returns the same set of records as the
\* user's own listing with the same filters.
C21_ViewsAgree ==
    /\ (lastResp.op = "adminRecords" /\ lastResp.status = 200)
          => ListedRecords(lastResp.body.records)
               = EmployeeQuery([id |-> lastResp.args.employeeId], lastResp.args, now)
    /\ (lastResp.op = "employeeRecords" /\ lastResp.status = 200)
          => \E q \in SortedByStartDesc(
                        AdminQuery([dateRange |-> lastResp.args.dateRange,
                                    employeeId |-> lastResp.caller.id,
                                    project |-> lastResp.args.project], now)) :
                 ListedRecords(Limit(q, ListLimit)) = ListedRecords(lastResp.body.records)

\* C22: whenever no deleteEmployee request is between its two store calls,
\* the userId of every record is the id of a stored user.
C22_NoOrphans ==
    (\A p \in Procs : procs[p].pc # "delete_records")
        => \A r \in records : \E u \in users : u.id = r.userId

====
